---- MODULE Spec2Model ----
(***************************************************************************)
(* The connection-and-broadcast subsystem of the rplace backend:           *)
(*   - Hub.Run        the Coordinator goroutine (register / unregister /   *)
(*                    broadcast cases of one select loop)                  *)
(*   - InitWebSocket  the upgrade handler, one goroutine per request       *)
(*   - Client.Read    the inbound loop of a connection                     *)
(*   - Client.Write   the outbound loop of a connection                    *)
(*   - board          the process-wide grid                                *)
(* The model follows src/unnamed/part_001 (the complete version of         *)
(* websocket.go), src/backend/server/models.go and init.go.                *)
(***************************************************************************)
EXTENDS Integers, Sequences, FiniteSets, TLC

\* ------------------------------------------------------------------ bounds
\* Number of upgrade requests (connections) the model follows.
NConn == 3
\* Capacity of Client.Send; the code makes it 256 (part_001:143).
SendCap == 1
\* Number of update messages the clients send over the whole run.
MaxUpdates == 2
\* Number of transport faults and peer closes (failed upgrade, read error,
\* write error on a socket the server has not closed) over the whole run.
MaxFaults == 1
\* Grid size; the code uses 1000 x 1000 (models.go:17-18).
boardWidth == 1
boardHeight == 2

Conn == 1..NConn
Xs == 0..(boardWidth - 1)
Ys == 0..(boardHeight - 1)
\* The colour every cell has after InitBoard (init.go:7-11).
InitColour == 0
\* The colour the clients paint with.
Paint == 1
Colours == { InitColour, Paint }

\* Update requests a client may send: one for each of two cells of the grid
\* and one just past the right edge of the grid.
Inputs ==
  { [x |-> 0, y |-> 0, col |-> Paint],
    [x |-> 0, y |-> boardHeight - 1, col |-> Paint],
    [x |-> boardWidth, y |-> 0, col |-> Paint] }

NoMsg == [type |-> "none"]

\* ------------------------------------------------------------------- state
VARIABLES
  hubpc,      \* Hub.Run: "start", "init" inside board.InitBoard(), "run"
  clients,    \* HubInstance.clients: the set of keys of the map
  send,       \* send[c]: buffered contents of c's Send channel
  sendClosed, \* sendClosed[c]: close(client.Send) has happened
  evict,      \* evict[c]: eviction goroutines blocked on h.unregister <- c
  pcH,        \* pcH[c]: position of the InitWebSocket handler of request c
  snap,       \* snap[c]: the board copy the handler took (boardState.Pixels)
  rd,         \* rd[c]: position of Client.Read
  pend,       \* pend[c]: the message Read is blocked sending on h.broadcast
  wr,         \* wr[c]: position of Client.Write
  wire,       \* wire[c]: what has been written to c's transport, in order
  sockCloses, \* sockCloses[c]: number of c.Socket.Close() calls made
  board,      \* board.Pixels (all zero when the process starts)
  nextSeq,    \* identity given to the next message a client sends
  faults,     \* number of transport faults and peer closes so far
  crashed     \* the Go runtime has aborted the process (fatal error)

vars == << hubpc, clients, send, sendClosed, evict, pcH, snap, rd, pend, wr,
           wire, sockCloses, board, nextSeq, faults, crashed >>

hubVars == << clients, send, sendClosed, evict >>
handlerVars == << pcH, snap >>
connVars == << rd, pend, wr, wire, sockCloses >>

NoSnap == [type |-> "none"]

Init ==
  /\ hubpc = "start"
  /\ clients = {}
  /\ send = [c \in Conn |-> << >>]
  /\ sendClosed = [c \in Conn |-> FALSE]
  /\ evict = [c \in Conn |-> 0]
  /\ pcH = [c \in Conn |-> "idle"]
  /\ snap = [c \in Conn |-> NoSnap]
  /\ rd = [c \in Conn |-> "none"]
  /\ pend = [c \in Conn |-> NoMsg]
  /\ wr = [c \in Conn |-> "none"]
  /\ wire = [c \in Conn |-> << >>]
  /\ sockCloses = [c \in Conn |-> 0]
  /\ board = [x \in Xs |-> [y \in Ys |-> InitColour]]
  /\ nextSeq = 1
  /\ faults = 0
  /\ crashed = FALSE

SockClosed(c) == sockCloses[c] > 0

\* A transport operation on c fails: always possible once the server has
\* closed the socket itself, otherwise it is a fault of the peer or network.
Fails(c) ==
  IF SockClosed(c) THEN faults' = faults
  ELSE faults < MaxFaults /\ faults' = faults + 1

\* ---------------------------------------------------------------- the Hub
\* board.InitBoard(): every cell is set to the zero colour.
InitBoard == [x \in Xs |-> [y \in Ys |-> InitColour]]

\* Hub.Run enters board.InitBoard(), which writes the cells one after the
\* other and does not take board.mu.
HubInitStart ==
  /\ ~crashed
  /\ hubpc = "start"
  /\ hubpc' = "init"
  /\ UNCHANGED << hubVars, handlerVars, connVars, board, nextSeq, faults,
                  crashed >>

\* board.InitBoard() returns and Hub.Run enters its select loop.
HubInit ==
  /\ ~crashed
  /\ hubpc = "init"
  /\ hubpc' = "run"
  /\ board' = InitBoard
  /\ UNCHANGED << hubVars, handlerVars, connVars, nextSeq, faults, crashed >>

\* Mutation: the unregister case closes the channel and keeps the map entry.
RegistryAfterLeaveKeep(c) == clients

\* Mutation: the unregister case empties the map.
RegistryAfterLeaveAll(c) == {}

\* unregister case: delete and close only when the key is present.
RegistryAfterLeave(c) == clients \ {c}

\* Mutation: the unregister case deletes the key and leaves the channel open.
ClosedAfterLeaveNoClose(c) == sendClosed

\* Mutation: the unregister case closes the channel of a present key only
\* when its queue is empty.
ClosedAfterLeaveIfDrained(c) ==
  IF c \in clients /\ send[c] = << >>
  THEN [sendClosed EXCEPT ![c] = TRUE] ELSE sendClosed

ClosedAfterLeave(c) ==
  IF c \in clients THEN [sendClosed EXCEPT ![c] = TRUE] ELSE sendClosed

\* Mutation: close(client.Send) without the test of presence.
LeavePanicsUnguarded(c) == sendClosed[c]

\* close() of a channel that is closed already is a run-time panic. The
\* close is inside the test of presence.
LeavePanics(c) == c \in clients /\ sendClosed[c]

\* Hub receives the unregister request sent by Read's deferred cleanup.
HubUnregisterRead(c) ==
  /\ ~crashed
  /\ hubpc = "run"
  /\ rd[c] = "unreg"
  /\ clients' = RegistryAfterLeave(c)
  /\ sendClosed' = ClosedAfterLeave(c)
  /\ crashed' = LeavePanics(c)
  /\ rd' = [rd EXCEPT ![c] = "closing"]
  /\ UNCHANGED << hubpc, send, evict, handlerVars, pend, wr, wire,
                  sockCloses, board, nextSeq, faults >>

\* Hub receives the unregister request sent by an eviction goroutine.
HubUnregisterEvict(c) ==
  /\ ~crashed
  /\ hubpc = "run"
  /\ evict[c] > 0
  /\ clients' = RegistryAfterLeave(c)
  /\ sendClosed' = ClosedAfterLeave(c)
  /\ crashed' = LeavePanics(c)
  /\ evict' = [evict EXCEPT ![c] = @ - 1]
  /\ UNCHANGED << hubpc, send, handlerVars, connVars, board,
                  nextSeq, faults >>

\* Mutation: the loop without the test uuid != message.SenderUUID.
RecipientsWithSender(m) == clients

\* broadcast case: the entries the loop sends to.
Recipients(m) == { d \in clients : d # m.sender }

\* Mutation: a full channel drops its oldest message to take the new one.
TrySendOverwrite(q, m) ==
  IF Len(q) < SendCap THEN Append(q, m) ELSE Append(Tail(q), m)

\* select { case client.Send <- message: ... default: ... }
TrySend(q, m) == IF Len(q) < SendCap THEN Append(q, m) ELSE q

\* The default branch: one eviction goroutine for every recipient whose
\* channel was full.
Evictees(m) == { d \in Recipients(m) : Len(send[d]) >= SendCap }

\* Mutation: the default branch deletes the entry itself, inside the loop
\* over the map.
RegistryAfterBroadcastInline(m) == clients \ Evictees(m)

\* The broadcast case only reads h.clients: its default branch starts a
\* goroutine that sends on h.unregister and touches nothing else.
RegistryAfterBroadcast(m) == clients

\* Mutation: the default branch closes the channel at once, as the inline
\* eviction does, and still leaves the deletion to the scheduled unregister.
ClosedAfterBroadcastInline(m) ==
  [d \in Conn |-> sendClosed[d] \/ d \in Evictees(m)]

\* The broadcast case closes no channel.
ClosedAfterBroadcast(m) == sendClosed

\* client.Send <- message on a closed channel is a run-time panic, also
\* inside a select with a default branch.
SendPanics(m) == \E d \in Recipients(m) : sendClosed[d]

\* Mutation: a plain client.Send <- message, which waits for room.
CanFanOutBlocking(m) == \A d \in Recipients(m) : Len(send[d]) < SendCap

\* The broadcast case never waits: every send is inside select/default.
CanFanOut(m) == TRUE

\* Mutation: the broadcasts are handled concurrently, each numbered only
\* among those waiting with it, so that two of them can get the same place.
HubOrdAmongWaiting == Cardinality({ d \in Conn : rd[d] = "bcast" })

\* The broadcast case handles one message per iteration of the select loop:
\* the position of the message being taken among the broadcasts the Hub has
\* taken (the updates received so far less those still waiting).
HubOrd == nextSeq - Cardinality({ d \in Conn : rd[d] = "bcast" })

\* The message as it is fanned out; ord notes its position in the Hub's
\* processing order.
Queued(m) ==
  [type |-> m.type, sender |-> m.sender, seq |-> m.seq,
   x |-> m.x, y |-> m.y, col |-> m.col, ord |-> HubOrd]

HubBroadcast(c) ==
  /\ ~crashed
  /\ hubpc = "run"
  /\ rd[c] = "bcast"
  /\ CanFanOut(pend[c])
  /\ LET m == Queued(pend[c]) IN
       /\ send' = [d \in Conn |->
                     IF d \in Recipients(m) THEN TrySend(send[d], m)
                     ELSE send[d]]
       /\ evict' = [d \in Conn |->
                     IF d \in Evictees(m) THEN evict[d] + 1 ELSE evict[d]]
       /\ clients' = RegistryAfterBroadcast(m)
       /\ sendClosed' = ClosedAfterBroadcast(m)
       /\ crashed' = SendPanics(m)
  /\ rd' = [rd EXCEPT ![c] = "reading"]
  /\ pend' = [pend EXCEPT ![c] = NoMsg]
  /\ UNCHANGED << hubpc, handlerVars, wr, wire, sockCloses, board, nextSeq,
                  faults >>

\* Some request is waiting for the Hub, so the Hub is about to read or write
\* the clients map.
HubPending ==
  /\ hubpc = "run"
  /\ \E d \in Conn : rd[d] \in {"bcast", "unreg"} \/ evict[d] > 0

\* ------------------------------------------------------- the upgrade handler
\* Mutation: the id of a connection whose loops have both returned is given
\* to a new request.
ArrivesReusingIds(c) ==
  \/ /\ pcH[c] = "idle"
     /\ \A d \in Conn : d < c => pcH[d] # "idle"
  \/ pcH[c] = "done" /\ rd[c] = "done" /\ wr[c] = "done"

\* Request c reaches the handler. Connection ids are fresh (uuid.New()), so
\* the requests are numbered in the order in which they arrive.
Arrives(c) ==
  /\ pcH[c] = "idle"
  /\ \A d \in Conn : d < c => pcH[d] # "idle"

\* upgrader.Upgrade succeeded: the Client is allocated with a fresh id and a
\* new Send channel.
HUpgradeOk(c) ==
  /\ ~crashed
  /\ Arrives(c)
  /\ pcH' = [pcH EXCEPT ![c] = "created"]
  /\ UNCHANGED << hubpc, hubVars, snap, connVars, board, nextSeq, faults,
                  crashed >>

\* upgrader.Upgrade failed: the handler returns.
\* Mutation: the error branch without its return, so the handler goes on
\* with the nil connection.
UpgradeErrFallThrough == "created"

\* The error branch of the handler: log and return.
UpgradeErrReturn == "failed"

HUpgradeFail(c) ==
  /\ ~crashed
  /\ Arrives(c)
  /\ Fails(c)
  /\ pcH' = [pcH EXCEPT ![c] = UpgradeErrReturn]
  /\ UNCHANGED << hubpc, hubVars, snap, connVars, board, nextSeq, crashed >>

\* HubInstance.clients[client.uuid] = client, written by the handler itself,
\* without h.mu and without the register channel.
RegistryAfterInsert(c) == clients \cup {c}

HInsert(c) ==
  /\ ~crashed
  /\ pcH[c] = "created"
  /\ clients' = RegistryAfterInsert(c)
  /\ pcH' = [pcH EXCEPT ![c] = "snap"]
  /\ UNCHANGED << hubpc, send, sendClosed, evict, snap, connVars,
                  board, nextSeq, faults, crashed >>

\* The handler's map write is unsynchronised: when it overlaps an access of
\* the Hub, or the map write of another handler, the Go runtime may detect
\* the concurrent map access and abort the process.
RaceWindow ==
  \E c \in Conn :
    /\ pcH[c] = "created"
    /\ (HubPending \/ \E d \in Conn \ {c} : pcH[d] = "created")

Crash ==
  /\ ~crashed
  /\ RaceWindow
  /\ crashed' = TRUE
  /\ UNCHANGED << hubpc, hubVars, handlerVars, connVars, board, nextSeq,
                  faults >>

\* board.mu.RLock(); boardState.Pixels = board.Pixels; board.mu.RUnlock()
Snapshot == board

\* What the copy can hold. InitBoard does not take board.mu, so a copy made
\* while it runs races with it: each cell is read either before or after
\* InitBoard stored to it.
SnapshotOutcomes ==
  IF hubpc = "init"
  THEN { s \in [Xs -> [Ys -> Colours]] :
           \A x \in Xs, y \in Ys : s[x][y] \in { board[x][y], InitBoard[x][y] } }
  ELSE { Snapshot }

HSnapshot(c) ==
  /\ ~crashed
  /\ pcH[c] = "snap"
  /\ \E s \in SnapshotOutcomes : snap' = [snap EXCEPT ![c] = s]
  /\ pcH' = [pcH EXCEPT ![c] = "init"]
  /\ UNCHANGED << hubpc, hubVars, connVars, board, nextSeq, faults, crashed >>

InitMsg(c) == [type |-> "init", pixels |-> snap[c]]

\* Mutation: the handler starts the loops without writing the init message.
WireAfterInitSkipped(c) == wire[c]

\* client.Socket.WriteJSON(boardState), by the handler itself.
WireAfterInit(c) == Append(wire[c], InitMsg(c))

\* client.Socket.WriteJSON(boardState), whose error is not looked at (wire
\* records the frame handed to the transport), then go client.Read();
\* go client.Write().
HSendInit(c) ==
  /\ ~crashed
  /\ pcH[c] = "init"
  /\ wire' = [wire EXCEPT ![c] = WireAfterInit(c)]
  /\ pcH' = [pcH EXCEPT ![c] = "done"]
  /\ rd' = [rd EXCEPT ![c] = "reading"]
  /\ wr' = [wr EXCEPT ![c] = "running"]
  /\ UNCHANGED << hubpc, hubVars, snap, pend, sockCloses, board, nextSeq,
                  faults, crashed >>

\* ------------------------------------------------------------- Client.Read
\* msg.SenderUUID = c.uuid; msg.Type = "update"
Stamp(c, in, n) ==
  [type |-> "update", sender |-> c, seq |-> n,
   x |-> in.x, y |-> in.y, col |-> in.col]

\* Mutation: Read writes the update it has received back to its own socket.
WireAfterRecvEcho(c, in) == Append(wire[c], Stamp(c, in, nextSeq))

\* Between ReadJSON and h.broadcast <- msg Read only stamps the message: it
\* writes nothing to the socket.
WireAfterRecv(c, in) == wire[c]

\* ReadJSON returned a decoded Update; Read goes on to h.broadcast <- msg.
ReadRecv(c, in) ==
  /\ ~crashed
  /\ rd[c] = "reading"
  /\ ~SockClosed(c)
  /\ nextSeq <= MaxUpdates
  /\ pend' = [pend EXCEPT ![c] = Stamp(c, in, nextSeq)]
  /\ rd' = [rd EXCEPT ![c] = "bcast"]
  /\ nextSeq' = nextSeq + 1
  /\ wire' = [wire EXCEPT ![c] = WireAfterRecv(c, in)]
  /\ UNCHANGED << hubpc, hubVars, handlerVars, wr, sockCloses, board,
                  faults, crashed >>

\* ReadJSON returned an error (peer close, bad frame, timeout, closed
\* socket): break, then the deferred h.unregister <- c.
\* Mutation: continue instead of break, so the loop reads on after an error.
ReadErrContinue == "reading"

\* break: Read leaves the loop and its deferred cleanup starts with the send
\* on h.unregister.
ReadErrExit == "unreg"

ReadErr(c) ==
  /\ ~crashed
  /\ rd[c] = "reading"
  /\ Fails(c)
  /\ rd' = [rd EXCEPT ![c] = ReadErrExit]
  /\ UNCHANGED << hubpc, hubVars, handlerVars, pend, wr, wire, sockCloses,
                  board, nextSeq, crashed >>

\* The deferred c.Socket.Close() after the Hub took the unregister request.
ReadClose(c) ==
  /\ ~crashed
  /\ rd[c] = "closing"
  /\ rd' = [rd EXCEPT ![c] = "done"]
  /\ sockCloses' = [sockCloses EXCEPT ![c] = @ + 1]
  /\ UNCHANGED << hubpc, hubVars, handlerVars, pend, wr, wire, board,
                  nextSeq, faults, crashed >>

\* ------------------------------------------------------------ Client.Write
\* Mutation: the deferred function of Write stops the ticker and does not
\* close the socket.
WriteCleanupNoClose(c) == sockCloses

\* The deferred function of Write: ticker.Stop(); c.Socket.Close().
WriteCleanup(c) == [sockCloses EXCEPT ![c] = @ + 1]

\* Mutation: every message is written by a goroutine of its own, so a write
\* can overtake the write before it.
WireAfterWriteRacy(c) ==
  IF wire[c][Len(wire[c])].type = "update"
  THEN Append(SubSeq(wire[c], 1, Len(wire[c]) - 1), Head(send[c]))
         \o << wire[c][Len(wire[c])] >>
  ELSE Append(wire[c], Head(send[c]))

\* c.Socket.WriteJSON(message) in the loop of Write, the only writer.
WireAfterWrite(c) == Append(wire[c], Head(send[c]))

\* message, ok := <-c.Send with ok = true, and WriteJSON succeeded.
WriteMsgOk(c) ==
  /\ ~crashed
  /\ wr[c] = "running"
  /\ send[c] # << >>
  /\ ~SockClosed(c)
  /\ wire' = [wire EXCEPT ![c] = WireAfterWrite(c)]
  /\ send' = [send EXCEPT ![c] = Tail(@)]
  /\ UNCHANGED << hubpc, clients, sendClosed, evict, handlerVars,
                  rd, pend, wr, sockCloses, board, nextSeq, faults, crashed >>

\* message, ok := <-c.Send with ok = true, and WriteJSON failed: return, and
\* the deferred c.Socket.Close().
WriteMsgFail(c) ==
  /\ ~crashed
  /\ wr[c] = "running"
  /\ send[c] # << >>
  /\ Fails(c)
  /\ send' = [send EXCEPT ![c] = Tail(@)]
  /\ wr' = [wr EXCEPT ![c] = "done"]
  /\ sockCloses' = WriteCleanup(c)
  /\ UNCHANGED << hubpc, clients, sendClosed, evict, handlerVars,
                  rd, pend, wire, board, nextSeq, crashed >>

CloseFrame == [type |-> "close"]

\* Mutation: Write looks at a closed flag before it receives, so it leaves
\* with messages still in the channel.
ClosedSeenEarly(c) == sendClosed[c]

\* message, ok := <-c.Send gives ok = false only when the channel is closed
\* and empty: a closed channel still hands out what is buffered in it.
ClosedSeen(c) == send[c] = << >> /\ sendClosed[c]

\* Mutation: the !ok branch returns without writing the close message.
WireAfterClosedSilent(c) == wire[c]

\* c.Socket.WriteMessage(websocket.CloseMessage, []byte{}): the frame goes
\* out unless the socket is closed already, when the call returns an error.
WireAfterClosed(c) ==
  IF SockClosed(c) THEN wire[c] ELSE Append(wire[c], CloseFrame)

\* ok = false: the channel is closed and drained. The close frame is written
\* unless the socket is closed already (the error is not looked at), then
\* return and the deferred Close().
WriteClosed(c) ==
  /\ ~crashed
  /\ wr[c] = "running"
  /\ ClosedSeen(c)
  /\ wire' = [wire EXCEPT ![c] = WireAfterClosed(c)]
  /\ wr' = [wr EXCEPT ![c] = "done"]
  /\ sockCloses' = WriteCleanup(c)
  /\ UNCHANGED << hubpc, hubVars, handlerVars, rd, pend, board, nextSeq,
                  faults, crashed >>

\* <-ticker.C: a ping that is written changes nothing of the state above (a
\* stuttering step); a ping whose write failed: return, deferred Close().
WritePingFail(c) ==
  /\ ~crashed
  /\ wr[c] = "running"
  /\ Fails(c)
  /\ wr' = [wr EXCEPT ![c] = "done"]
  /\ sockCloses' = WriteCleanup(c)
  /\ UNCHANGED << hubpc, hubVars, handlerVars, rd, pend, wire, board,
                  nextSeq, crashed >>

\* ------------------------------------------------------------ specification
Next ==
  \/ HubInitStart
  \/ HubInit
  \/ \E c \in Conn : HubUnregisterRead(c)
  \/ \E c \in Conn : HubUnregisterEvict(c)
  \/ \E c \in Conn : HubBroadcast(c)
  \/ \E c \in Conn : HUpgradeOk(c)
  \/ \E c \in Conn : HUpgradeFail(c)
  \/ \E c \in Conn : HInsert(c)
  \/ Crash
  \/ \E c \in Conn : HSnapshot(c)
  \/ \E c \in Conn : HSendInit(c)
  \/ \E c \in Conn, in \in Inputs : ReadRecv(c, in)
  \/ \E c \in Conn : ReadErr(c)
  \/ \E c \in Conn : ReadClose(c)
  \/ \E c \in Conn : WriteMsgOk(c)
  \/ \E c \in Conn : WriteMsgFail(c)
  \/ \E c \in Conn : WriteClosed(c)
  \/ \E c \in Conn : WritePingFail(c)

Spec == Init /\ [][Next]_vars

\* The Hub goroutine is scheduled, and its select takes every channel that
\* stays ready: a sender blocked on h.unregister is eventually received.
FairSpec ==
  /\ Spec
  /\ WF_vars(HubInitStart)
  /\ WF_vars(HubInit)
  /\ \A c \in Conn : WF_vars(HubUnregisterEvict(c))
  /\ \A c \in Conn : WF_vars(HubUnregisterRead(c))
  /\ \A c \in Conn : WF_vars(HubBroadcast(c))

\* A step of the Hub goroutine.
HubStep ==
  \/ HubInitStart
  \/ HubInit
  \/ \E c \in Conn : HubUnregisterRead(c)
  \/ \E c \in Conn : HubUnregisterEvict(c)
  \/ \E c \in Conn : HubBroadcast(c)

\* A step that the goroutines Read and Write of c take of themselves, with
\* no new input of the peer: Read's cleanup goes on to Close once the Hub
\* has taken its request; ReadJSON on a socket the server has closed returns
\* its error; Write takes a message that is in its channel and its WriteJSON
\* returns (there is a write deadline); Write sees that its channel is
\* closed.
LoopStep(c) ==
  \/ ReadClose(c)
  \/ SockClosed(c) /\ ReadErr(c)
  \/ WriteMsgOk(c)
  \/ WriteMsgFail(c)
  \/ WriteClosed(c)

\* The Hub goroutine and the goroutines of every connection are scheduled:
\* none of them stays able to take a step for ever without taking one.
LiveSpec ==
  /\ Spec
  /\ WF_vars(HubStep)
  /\ \A c \in Conn : WF_vars(LoopStep(c))

\* ------------------------------------------------------------------ helpers
Range(q) == { q[i] : i \in 1..Len(q) }

\* The coordinate lies on the grid.
InRange(x, y) == x >= 0 /\ x < boardWidth /\ y >= 0 /\ y < boardHeight

Updates(q) == { f \in Range(q) : f.type = "update" }

\* The handler of c has executed the map insert.
Joined(c) == pcH[c] \in {"snap", "init", "done"}

\* The handler of c has sent the init message.
InitSent(c) == pcH[c] = "done"

\* The step in which the Hub takes c's message from h.broadcast.
BroadcastStep(c) == rd[c] = "bcast" /\ rd'[c] = "reading"

\* The step is one in which the Hub took an unregister request.
LeaveStep ==
  \E c \in Conn :
    \/ rd[c] = "unreg" /\ rd'[c] = "closing"
    \/ evict'[c] < evict[c]

\* ------------------------------------------------------------------- claims
\* C1: no self-echo. No message stamped with connection c as its sender is
\* ever in c's own Send queue, and none is ever written to c's transport.
C1_NoSelfEcho ==
  \A c \in Conn :
    /\ \A m \in Range(send[c]) : m.sender # c
    /\ \A m \in Updates(wire[c]) : m.sender # c

\* C1 witness: a message of a registered sender c has been written to the
\* transport of another connection.
C1_Witness ==
  \E c \in clients :
    \E d \in Conn \ {c} :
      \E m \in Updates(wire[d]) : m.sender = c

\* C2: broadcast fan-out. In the step in which the Hub processes a message
\* of sender c, every connection that is in the registry, is not c and has
\* room in its queue gets exactly that message appended once; every other
\* queue (the sender's, the full ones, those outside the registry) is left
\* as it was.
C2_FanOut ==
  [][\A c \in Conn :
       BroadcastStep(c) =>
         \A d \in Conn :
           send'[d] = IF d \in clients /\ d # c /\ Len(send[d]) < SendCap
                      THEN Append(send[d], Queued(pend[c]))
                      ELSE send[d]]_vars

\* C2 witness: a registered connection holds a message of another sender in
\* its queue while a connection that has its channel but is not in the
\* registry holds none.
C2_Witness ==
  /\ \E d \in clients : \E m \in Range(send[d]) : m.sender # d
  /\ \E e \in Conn \ clients : pcH[e] = "created" /\ send[e] = << >>

\* While the process runs, the Hub can take every waiting broadcast and
\* every waiting unregister request.
C3_HubReady ==
  (~crashed /\ hubpc = "run") =>
    \A c \in Conn :
      /\ rd[c] = "bcast" => ENABLED HubBroadcast(c)
      /\ rd[c] = "unreg" => ENABLED HubUnregisterRead(c)
      /\ evict[c] > 0 => ENABLED HubUnregisterEvict(c)

\* C3: isolation of slow consumers. Whatever the fill state of the queues,
\* and whichever connections are in their disconnect path, a running Hub
\* can take every waiting broadcast and every waiting unregister request;
\* and a broadcast that finds some recipient's queue full still appends the
\* message to every other registered non-sender with room.
C3_Isolation ==
  /\ []C3_HubReady
  /\ [][\A c \in Conn :
         (BroadcastStep(c) /\
            \E f \in clients \ {c} : Len(send[f]) >= SendCap) =>
           \A d \in clients \ {c} :
             Len(send[d]) < SendCap =>
               send'[d] = Append(send[d], Queued(pend[c]))]_vars

\* C3 witness: the queue of f was found full (its eviction is scheduled and
\* it is still full and registered), another registered connection o, not
\* scheduled for eviction, holds a message that never reached f, and a
\* connection e other than f is in its disconnect path, waiting for the Hub.
C3_Witness ==
  \E f \in clients, o \in clients, e \in Conn :
    /\ o # f /\ e # f
    /\ evict[f] > 0
    /\ Len(send[f]) >= SendCap
    /\ evict[o] = 0
    /\ \E m \in Range(send[o]) :
         m \notin (Range(send[f]) \cup Updates(wire[f])) /\ m.sender # o
    /\ rd[e] = "unreg"

\* C4: slow-consumer eviction is eventual. Once a broadcast has found c's
\* queue full (an eviction goroutine for c is waiting), c is eventually out
\* of the registry with its Send channel closed, as long as the process
\* runs (crashed is the Go runtime having aborted it, after which no
\* Coordinator is scheduled).
C4_EvictionEventual ==
  \A c \in Conn :
    (evict[c] > 0) ~> ((c \notin clients /\ sendClosed[c]) \/ crashed)

\* C4 witness: an evicted connection, its queue still holding the message
\* that made it full, is out of the registry with its channel closed and
\* no eviction request left.
C4_Witness ==
  \E c \in Conn :
    /\ c \notin clients /\ sendClosed[c] /\ evict[c] = 0
    /\ Len(send[c]) >= SendCap
    /\ rd[c] = "reading"
    /\ ~crashed

\* c is in the registry exactly when it has joined and its Send channel is
\* open.
C5_MemberIffOpen ==
  \A c \in Conn : (c \in clients) <=> (Joined(c) /\ ~sendClosed[c])

\* C5: registry membership equals broadcast eligibility. In every state, c
\* is in the registry exactly when it has joined and its Send channel is
\* open (so no registry entry has a closed channel); and no step enqueues a
\* message on the queue of a connection that is not in the registry.
C5_Membership ==
  /\ []C5_MemberIffOpen
  /\ [][\A c \in Conn : Len(send'[c]) > Len(send[c]) => c \in clients]_vars

\* C5 witness: one connection has joined and left (channel closed, out of
\* the registry) while another is a member holding a broadcast message.
C5_Witness ==
  \E c \in Conn, d \in clients :
    /\ Joined(c) /\ sendClosed[c] /\ c \notin clients
    /\ send[d] # << >>

\* C6: every change of the registry happens in a step of the Coordinator
\* (a step in which the Hub took a request from one of its channels).
C6_OnlyCoordinator ==
  [][clients' # clients => LeaveStep]_vars

\* C7: join ordering. A connection is in the registry only after its init
\* snapshot has been taken and sent.
C7_JoinAfterInit ==
  \A c \in clients : InitSent(c)

\* The snapshot the handler of c took shows the effect of update u.
Shows(c, u) == pcH[c] \in {"init", "done"} /\ snap[c][u.x][u.y] = u.col

\* The updates the Hub has fanned out to some connection.
FannedOut == UNION { Range(send[d]) \cup Updates(wire[d]) : d \in Conn }

\* c has its init message and is still connected: registered, not
\* scheduled for eviction, both loops running, socket open.
Connected(c) ==
  /\ InitSent(c) /\ c \in clients /\ evict[c] = 0
  /\ rd[c] \in {"reading", "bcast"} /\ wr[c] = "running" /\ ~SockClosed(c)

\* C8: no update is missed. For every in-range update of another sender
\* that the Hub has fanned out, a connected connection has it in its init
\* snapshot, in its queue or on its transport.
C8_NoUpdateMissed ==
  \A c \in Conn :
    Connected(c) =>
      \A u \in FannedOut :
        (u.sender # c /\ InRange(u.x, u.y)) =>
          \/ Shows(c, u)
          \/ u \in Range(send[c])
          \/ u \in Updates(wire[c])

\* C9: an in-range update changes the grid. Once Read has taken an in-range
\* update and is handing it to the Hub, the grid holds its colour at its
\* cell (every update paints Paint, so no other update can have put a
\* different colour there since).
C9_UpdateWritesGrid ==
  \A c \in Conn :
    (rd[c] = "bcast" /\ InRange(pend[c].x, pend[c].y)) =>
      board[pend[c].x][pend[c].y] = pend[c].col

\* C10: an out-of-range update is discarded. Read never hands an update
\* whose coordinate is out of range to the Hub.
C10_OutOfRangeDiscarded ==
  \A c \in Conn : rd[c] = "bcast" => InRange(pend[c].x, pend[c].y)

\* The step in which Read has decoded an update of c and goes on to hand it
\* to the Hub: the place where the update is validated and applied.
ReadTakeStep(c) == rd[c] = "reading" /\ rd'[c] = "bcast"

\* Write(x, y, colour) of the Grid Store applied to a grid b.
ApplyWrite(b, u) == [b EXCEPT ![u.x][u.y] = u.col]

\* The cell an update addresses.
Cell(u) == << u.x, u.y >>

\* Connections c and d are both handing an in-range update to the Hub.
BothSubmitted(c, d) ==
  /\ c # d
  /\ rd[c] = "bcast" /\ InRange(pend[c].x, pend[c].y)
  /\ rd[d] = "bcast" /\ InRange(pend[d].x, pend[d].y)

\* C11: Grid Store bounds safety. The write that handling a received update
\* performs fails for a coordinate outside the grid (the update is not
\* accepted and no cell changes) and succeeds for a coordinate on the grid
\* (afterwards the grid is the old grid with that one cell repainted).
C11_BoundsSafety ==
  [][\A c \in Conn :
       ReadTakeStep(c) =>
         /\ InRange(pend'[c].x, pend'[c].y)
         /\ board' = ApplyWrite(board, pend'[c])]_vars

\* C12: writes to distinct cells commute. When two connections have each
\* submitted an update, to two different cells, the grid is the initial grid
\* with both updates applied, in either order: neither update is lost.
C12_DistinctCellsCommute ==
  \A c \in Conn, d \in Conn :
    (BothSubmitted(c, d) /\ Cell(pend[c]) # Cell(pend[d])) =>
      /\ board = ApplyWrite(ApplyWrite(InitBoard, pend[c]), pend[d])
      /\ board = ApplyWrite(ApplyWrite(InitBoard, pend[d]), pend[c])

\* C13: last write wins on one cell. When two connections have each
\* submitted an update to the same cell, the cell holds the colour of one of
\* the two updates (the one written second), never another value.
C13_LastWriteWins ==
  \A c \in Conn, d \in Conn :
    (BothSubmitted(c, d) /\ Cell(pend[c]) = Cell(pend[d])) =>
      board[pend[c].x][pend[c].y] \in { pend[c].col, pend[d].col }

\* The step in which the handler of c copies the grid.
SnapshotStep(c) == pcH[c] = "snap" /\ pcH'[c] = "init"

\* The updates the Read loops have taken so far and that are still known:
\* those fanned out and those being handed to the Hub.
Taken == FannedOut \cup { pend[c] : c \in { d \in Conn : rd[d] = "bcast" } }

\* The colours cell (x, y) can have been given: the initial colour and the
\* colours of the updates to it.
CellColours(x, y) ==
  { InitColour } \cup { u.col : u \in { t \in Taken : Cell(t) = << x, y >> } }

\* C14: snapshot consistency. Every cell of every snapshot a handler took
\* holds the initial colour or the colour of an update to that cell, and no
\* handler copies the grid while InitBoard is running.
C14_SnapshotConsistent ==
  /\ [](\A c \in Conn :
          pcH[c] \in {"init", "done"} =>
            \A x \in Xs, y \in Ys : snap[c][x][y] \in CellColours(x, y))
  /\ [][\A c \in Conn : SnapshotStep(c) => hubpc # "init"]_vars

\* c's entry is taken out of the registry in this step.
Removed(c) == c \in clients /\ c \notin clients'

\* c's Send channel is closed in this step.
QueueClosed(c) == ~sendClosed[c] /\ sendClosed'[c]

\* Once Read's unregister request has been taken, c has had its Leave; a
\* loop that has returned has called Close on the socket.
C15_CleanedUp ==
  \A c \in Conn :
    /\ rd[c] \in {"closing", "done"} => (c \notin clients /\ sendClosed[c])
    /\ (rd[c] = "done" \/ wr[c] = "done") => SockClosed(c)

LeaveStepOf(c) ==
  \/ rd[c] = "unreg" /\ rd'[c] = "closing"
  \/ evict'[c] < evict[c]

\* C16: Leave of an absent connection is a no-op. A step in which the Hub
\* takes an unregister request for a connection that is not in the registry
\* leaves the registry, every queue and every channel's open/closed state
\* as they were, and the process keeps running.
C16_LeaveAbsentNoOp ==
  [][\A c \in Conn :
       (LeaveStepOf(c) /\ c \notin clients) =>
         /\ clients' = clients
         /\ send' = send
         /\ sendClosed' = sendClosed
         /\ crashed' = crashed]_vars

\* C16 witness: two unregister requests for the same connection have been
\* taken. No transport fault has occurred, so Read of c can only have failed
\* on a socket that Write closed after finding the channel closed by the
\* eviction; Read's own request, taken after that, found c absent.
C16_Witness ==
  \E c \in Conn :
    /\ faults = 0 /\ ~crashed
    /\ rd[c] = "closing"
    /\ evict[c] = 0
    /\ c \notin clients /\ sendClosed[c]

\* The frame is an update message.
IsUpdate(f) == f.type = "update"

\* The frames of q at the positions after the first.
Rest(q) == { q[i] : i \in 2..Len(q) }

\* C17: init-first protocol. Whatever has been written to a connection's
\* transport starts with the init message and holds no other init message;
\* and once the handler has started the loops of a connection, its init
\* message has been written.
C17_InitFirst ==
  \A c \in Conn :
    /\ wire[c] # << >> => wire[c][1].type = "init"
    /\ \A f \in Rest(wire[c]) : f.type # "init"
    /\ (rd[c] # "none" \/ wr[c] # "none") => wire[c] # << >>

\* C17 witness: a connection has been written its init message and then an
\* update.
C17_Witness ==
  \E c \in Conn :
    /\ Len(wire[c]) >= 2
    /\ wire[c][1].type = "init"
    /\ wire[c][2].type = "update"

\* The updates written to c's transport, in the order written, followed by
\* those waiting in its queue.
Stream(c) == SelectSeq(wire[c], IsUpdate) \o send[c]

FailureStep(c) ==
  \/ rd[c] = "reading" /\ rd'[c] = "unreg"
  \/ rd[c] = "unreg" /\ rd'[c] = "closing"
  \/ rd[c] = "closing" /\ rd'[c] = "done"
  \/ wr[c] = "running" /\ wr'[c] = "done"

\* Nothing of connection d changes in the step.
SameFor(d) ==
  /\ (d \in clients') <=> (d \in clients)
  /\ send'[d] = send[d]
  /\ sendClosed'[d] = sendClosed[d]
  /\ evict'[d] = evict[d]
  /\ rd'[d] = rd[d] /\ pend'[d] = pend[d]
  /\ wr'[d] = wr[d] /\ wire'[d] = wire[d]
  /\ sockCloses'[d] = sockCloses[d]
  /\ pcH'[d] = pcH[d] /\ snap'[d] = snap[d]

\* C20: failure isolation. A step of c's failure and cleanup changes
\* nothing of any other connection (registry membership, queue, channel,
\* loops, transport), and the Hub and the process keep running.
C20_FailureIsolation ==
  [][\A c \in Conn :
       FailureStep(c) =>
         /\ \A d \in Conn \ {c} : SameFor(d)
         /\ hubpc' = hubpc
         /\ crashed' = crashed]_vars

\* C20 witness: a transport fault has hit c, whose loops have both returned
\* after the cleanup, while another connection is still connected and holds
\* a broadcast message in its queue.
C20_Witness ==
  \E c \in Conn, d \in Conn :
    /\ c # d
    /\ faults = 1 /\ ~crashed
    /\ rd[c] = "done" /\ wr[c] = "done" /\ c \notin clients
    /\ Connected(d) /\ send[d] # << >>

\* The step is a failed read of a message: a transport fault that is
\* neither a failed upgrade nor a failed write.
ReadFaultStep == faults' > faults /\ wr' = wr /\ pcH' = pcH

\* C21: a malformed inbound message ends only the sending connection. The
\* step in which a read fails takes the Read loop of that connection out of
\* its loop into the cleanup (the send on h.unregister) without handing any
\* message to the Hub, and changes nothing of the registry, of the queues,
\* of the Hub or of any other connection; a Read loop that has left its
\* loop has no message waiting for the Hub; and when its cleanup is over the
\* connection is out of the registry and its socket is closed.
C21_MalformedEndsOne ==
  /\ [](\A c \in Conn :
          /\ rd[c] \in {"unreg", "closing", "done"} => pend[c] = NoMsg
          /\ rd[c] = "done" => (c \notin clients /\ SockClosed(c)))
  /\ [][ReadFaultStep =>
          \E c \in Conn :
            /\ rd[c] = "reading" /\ rd'[c] = "unreg"
            /\ pend' = pend /\ nextSeq' = nextSeq
            /\ clients' = clients /\ send' = send /\ sendClosed' = sendClosed
            /\ hubpc' = hubpc /\ crashed' = crashed
            /\ \A d \in Conn \ {c} : SameFor(d)]_vars

\* C21 witness: the one transport fault of the run was a failed read of c
\* (no upgrade has failed and no Write loop has returned); the cleanup of
\* c's Read is over, c is out of the registry, and another connection is
\* still connected.
C21_Witness ==
  \E c \in Conn, d \in Conn :
    /\ c # d
    /\ faults = 1 /\ ~crashed
    /\ \A e \in Conn : pcH[e] # "failed" /\ wr[e] # "done"
    /\ rd[c] = "done" /\ c \notin clients /\ SockClosed(c)
    /\ Connected(d)

\* The step is a failed upgrade of request c.
UpgradeFaultStep(c) ==
  pcH[c] = "idle" /\ pcH'[c] # "idle" /\ faults' > faults

\* Nothing exists for request c: no registry entry, no channel contents,
\* no snapshot, no loop, nothing written, no eviction request.
NothingAllocated(c) ==
  /\ c \notin clients
  /\ send[c] = << >> /\ ~sendClosed[c] /\ evict[c] = 0
  /\ snap[c] = NoSnap
  /\ rd[c] = "none" /\ wr[c] = "none" /\ pend[c] = NoMsg
  /\ wire[c] = << >> /\ sockCloses[c] = 0

\* C22: a failed upgrade allocates nothing. The step in which the upgrade
\* of a request fails ends the handler and leaves the registry, every
\* queue and every loop as they were; and for a request whose upgrade
\* failed there is never a registry entry, a queue, a snapshot or a loop.
C22_FailedUpgradeNothing ==
  /\ [](\A c \in Conn : pcH[c] = "failed" => NothingAllocated(c))
  /\ [][\A c \in Conn :
          UpgradeFaultStep(c) =>
            /\ pcH'[c] = "failed"
            /\ UNCHANGED << hubpc, hubVars, snap, connVars, board, nextSeq,
                            crashed >>]_vars

\* C22 witness: the upgrade of a request failed while an earlier connection
\* is registered and connected.
C22_Witness ==
  \E c \in Conn, d \in Conn :
    /\ pcH[c] = "failed" /\ NothingAllocated(c)
    /\ Connected(d)

\* Read of c has left its loop (it is in its deferred cleanup or has
\* returned).
ReadExited(c) == rd[c] \in {"unreg", "closing", "done"}

\* Both loops of c have returned.
BothDone(c) == rd[c] = "done" /\ wr[c] = "done"

\* C23: both loops terminate once either one exits. As long as the process
\* runs: once Read has left its loop or Write has returned, eventually both
\* Read and Write have returned; and when both have returned the connection
\* is out of the registry and its socket is closed.
C23_BothLoopsEnd ==
  /\ \A c \in Conn :
       (ReadExited(c) \/ wr[c] = "done") ~> (BothDone(c) \/ crashed)
  /\ [](\A c \in Conn : BothDone(c) => (c \notin clients /\ SockClosed(c)))

\* C23 witness: the Write loop of c returned on a failed write while its
\* Read loop was still reading (the one fault of the run, and no close
\* frame was written), and now Read has returned too, with c out of the
\* registry.
C23_Witness ==
  \E c \in Conn :
    /\ faults = 1 /\ ~crashed
    /\ \A e \in Conn : pcH[e] # "failed"
    /\ BothDone(c) /\ c \notin clients /\ sockCloses[c] = 2
    /\ CloseFrame \notin Range(wire[c])
    /\ evict[c] = 0

\* C24: an outbound write failure leads to Leave. As long as the process
\* runs, once Write of c has returned (on a failed write of a message or of
\* a ping, or on its closed channel), c is eventually out of the registry
\* with its Send channel closed.
C24_WriteFailureLeaves ==
  \A c \in Conn :
    (wr[c] = "done") ~> ((c \notin clients /\ sendClosed[c]) \/ crashed)

\* C24 witness: Write of c returned on the one fault of the run, a failed
\* write (so without a close frame), which made Read fail on the closed
\* socket; the Hub has taken Read's unregister request and c is out of the
\* registry while another connection still is in it.
C24_Witness ==
  \E c \in Conn :
    /\ faults = 1 /\ ~crashed
    /\ \A e \in Conn : pcH[e] # "failed"
    /\ wr[c] = "done" /\ CloseFrame \notin Range(wire[c])
    /\ rd[c] = "closing"
    /\ c \notin clients /\ sendClosed[c] /\ evict[c] = 0
    /\ clients # {}

\* ---------------------------------------------------------------------- C25
\* The states of a connection, read off the positions of its handler and of
\* its two loops: 0 Connecting (no request yet), 1 Upgrading (the handler is
\* between Upgrade and the start of the loops; a refused upgrade stays here,
\* it never has a transport), 2 Active (both loops run), 3 Closing (a loop
\* has left its loop), 4 Closed (both have returned, the socket is closed).
Phase(c) ==
  CASE pcH[c] = "idle" -> 0
    [] pcH[c] \in {"created", "snap", "init", "failed"} -> 1
    [] pcH[c] = "done" /\ rd[c] \in {"reading", "bcast"}
         /\ wr[c] = "running" -> 2
    [] pcH[c] = "done" /\ rd[c] = "done" /\ wr[c] = "done"
         /\ SockClosed(c) -> 4
    [] OTHER -> 3

\* The state of c after the step.
PhaseNext(c) ==
  CASE pcH'[c] = "idle" -> 0
    [] pcH'[c] \in {"created", "snap", "init", "failed"} -> 1
    [] pcH'[c] = "done" /\ rd'[c] \in {"reading", "bcast"}
         /\ wr'[c] = "running" -> 2
    [] pcH'[c] = "done" /\ rd'[c] = "done" /\ wr'[c] = "done"
         /\ sockCloses'[c] > 0 -> 4
    [] OTHER -> 3

\* The id of c has been put into the clients map at some time.
WasInserted(c) == pcH[c] \in {"snap", "init", "done"}

\* C25: every step leaves the state of a connection where it is or moves it
\* to the next one of Connecting, Upgrading, Active, Closing, Closed; when
\* both loops have returned the socket is closed, so the connection is
\* Closed; nothing of a Closed connection changes any more; and an id that
\* has been removed from the clients map is not put into it again.
C25_Lifecycle ==
  /\ [](\A c \in Conn :
         (rd[c] = "done" /\ wr[c] = "done") => Phase(c) = 4)
  /\ [][\A c \in Conn :
         /\ PhaseNext(c) \in { Phase(c), Phase(c) + 1 }
         /\ Phase(c) = 4 =>
              /\ PhaseNext(c) = 4
              /\ pcH'[c] = pcH[c] /\ rd'[c] = rd[c] /\ wr'[c] = wr[c]
              /\ wire'[c] = wire[c] /\ sockCloses'[c] = sockCloses[c]
         /\ (WasInserted(c) /\ c \notin clients) => c \notin clients']_vars

\* A connection has gone the whole way and is Closed, its id is out of the
\* clients map, and another connection is Active.
C25_Witness ==
  \E c \in Conn : \E d \in Conn \ {c} :
    /\ ~crashed
    /\ Phase(c) = 4 /\ c \notin clients
    /\ Phase(d) = 2 /\ d \in clients

\* ---------------------------------------------------------------------- C26
\* Write of c returns on finding its channel closed and empty while the
\* socket is still open.
SeesClosureStep(c) ==
  /\ wr[c] = "running" /\ wr'[c] = "done"
  /\ sendClosed[c] /\ send[c] = << >>
  /\ ~SockClosed(c)
  /\ faults' = faults

\* C26 as stated: when the channel of c has been closed and Write of c has
\* returned, the close frame has been written to the transport.
C26_CloseFrameAlways ==
  \A c \in Conn :
    (sendClosed[c] /\ wr[c] = "done") => CloseFrame \in Range(wire[c])

\* C26 amended: a Write loop that is running when its channel is closed
\* eventually returns; when it finds the channel closed with the socket
\* still open it writes the close frame; and a close frame is the last
\* frame on the transport, written once, by a loop that has returned.
C26_CloseOnLeave ==
  /\ \A c \in Conn :
       (sendClosed[c] /\ wr[c] = "running") ~> (wr[c] = "done" \/ crashed)
  /\ [][\A c \in Conn :
         SeesClosureStep(c) => wire'[c] = Append(wire[c], CloseFrame)]_vars
  /\ [](\A c \in Conn : \A i \in 1..Len(wire[c]) :
         wire[c][i] = CloseFrame =>
           /\ i = Len(wire[c])
           /\ wr[c] = "done"
           /\ sendClosed[c] /\ send[c] = << >>)

\* With no fault at all, c was evicted as a slow consumer, its Write wrote
\* the update that was in the channel and then the close frame, and
\* returned.
C26_Witness ==
  \E c \in Conn :
    /\ faults = 0 /\ ~crashed
    /\ sendClosed[c] /\ wr[c] = "done"
    /\ Len(wire[c]) = 3
    /\ wire[c][1].type = "init"
    /\ wire[c][2].type = "update"
    /\ wire[c][3] = CloseFrame

\* ---------------------------------------------------------------------- C27
\* The recipients of the broadcast of c whose channel is full.
FullRecipients(c) ==
  { d \in clients : d # c /\ Len(send[d]) >= SendCap }

ChannelPanicStep ==
  \E c \in Conn :
    \/ LeaveStepOf(c) /\ LeavePanics(c)
    \/ BroadcastStep(c) /\ SendPanics(Queued(pend[c]))

\* C28: no step closes a channel a second time and none sends on a closed
\* channel: a closed channel stays closed and takes no further message,
\* the channel of a map entry is open, and the process is never aborted by
\* a step of the Hub.
C28_ChannelSafety ==
  /\ [](\A c \in clients : ~sendClosed[c])
  /\ [][/\ ~ChannelPanicStep
        /\ \A c \in Conn :
             sendClosed[c] =>
               /\ sendClosed'[c]
               /\ Len(send'[c]) <= Len(send[c])
        /\ (crashed' /\ ~crashed) =>
             UNCHANGED << hubVars, connVars >>]_vars

\* The interleaving the claim is about, with no fault of the transport: c
\* was evicted as a slow consumer and the Hub closed its channel; its Write
\* drained the channel, wrote the close frame and closed the socket; its
\* Read then failed and sent a second Leave for c, which the Hub has taken
\* without closing again; the process runs and another member's channel is
\* open.
C28_Witness ==
  \E c \in Conn : \E d \in Conn \ {c} :
    /\ faults = 0 /\ ~crashed
    /\ sendClosed[c] /\ c \notin clients
    /\ evict[c] = 0 /\ rd[c] \in {"closing", "done"}
    /\ CloseFrame \in Range(wire[c])
    /\ d \in clients /\ ~sendClosed[d]

\* ---------------------------------------------------------------------- C29
\* A goroutine of c is blocked in a send to the Hub: Read in
\* h.broadcast <- msg, Read's cleanup in h.unregister <- c, or an eviction
\* goroutine in h.unregister <- c.
Waiting(c) == rd[c] \in {"bcast", "unreg"} \/ evict[c] > 0

\* C29: while the process runs and a sender is blocked on one of the Hub's
\* channels, the Hub goroutine can take a step (it is initialising or in
\* its select, never inside a send that waits), and the Hub can receive
\* each of the waiting requests; and every connection with blocked senders
\* comes to a state where all of them have been received. A sender leaves
\* its send only by the Hub's receive.
C29_HubProgress ==
  /\ \A c \in Conn : Waiting(c) ~> (~Waiting(c) \/ crashed)
  /\ []((~crashed /\ \E c \in Conn : Waiting(c)) => ENABLED HubStep)
  /\ [](\A c \in Conn : (~crashed /\ hubpc = "run") =>
         /\ rd[c] = "bcast" => ENABLED HubBroadcast(c)
         /\ rd[c] = "unreg" => ENABLED HubUnregisterRead(c)
         /\ evict[c] > 0 => ENABLED HubUnregisterEvict(c))
  /\ [][\A c \in Conn :
         /\ (rd[c] = "bcast" /\ rd'[c] # "bcast") => HubBroadcast(c)
         /\ (rd[c] = "unreg" /\ rd'[c] # "unreg") => HubUnregisterRead(c)
         /\ evict'[c] < evict[c] => HubUnregisterEvict(c)]_vars

\* The three kinds of sender have all been blocked and all been received:
\* c was evicted (its channel is closed with no fault in the run) after the
\* two broadcasts of others, and its Read's cleanup has been through its
\* own Leave; nothing is waiting for the Hub any more.
C29_Witness ==
  \E c \in Conn :
    /\ faults = 0 /\ ~crashed
    /\ nextSeq > MaxUpdates
    /\ sendClosed[c] /\ rd[c] = "done"
    /\ \A d \in Conn : ~Waiting(d)

\* ---------------------------------------------------------------------- C30
\* The handler of c is at its WriteJSON(boardState).
HandlerMayWrite(c) == pcH[c] = "init"

\* The Write loop of c runs, so it may be inside a write to the socket.
LoopMayWrite(c) == wr[c] = "running"

\* C30: the handler and the Write loop of a connection are never both at a
\* write to its socket: the loops of c are not started before the handler
\* has written the init message and is done; and every frame on c's
\* transport is put there either by that one write of the handler, before
\* the loops exist, or by a step of the running Write loop, one frame at a
\* time, in which neither the handler nor Read of c moves.
C30_SingleWriter ==
  /\ [](\A c \in Conn :
         /\ ~(HandlerMayWrite(c) /\ LoopMayWrite(c))
         /\ pcH[c] # "done" => (rd[c] = "none" /\ wr[c] = "none"))
  /\ [][\A c \in Conn :
         wire'[c] # wire[c] =>
           /\ Len(wire'[c]) = Len(wire[c]) + 1
           /\ SubSeq(wire'[c], 1, Len(wire[c])) = wire[c]
           /\ \/ /\ HandlerMayWrite(c) /\ wr[c] = "none" /\ rd[c] = "none"
                 /\ wire[c] = << >> /\ wire'[c][1].type = "init"
              \/ /\ LoopMayWrite(c) /\ pcH[c] = "done"
                 /\ pcH'[c] = pcH[c] /\ rd'[c] = rd[c] /\ pend'[c] = pend[c]
                 /\ wire'[c][Len(wire'[c])].type \in {"update", "close"}]_vars

\* The Write loop of c has written an update while Read of c is blocked in
\* its send to the Hub, and the handler of another connection is at its
\* init write.
C30_Witness ==
  \E c \in Conn : \E d \in Conn \ {c} :
    /\ ~crashed
    /\ Len(wire[c]) = 2
    /\ wire[c][1].type = "init" /\ wire[c][2].type = "update"
    /\ LoopMayWrite(c) /\ rd[c] = "bcast"
    /\ HandlerMayWrite(d) /\ wire[d] = << >>

\* ---------------------------------------------------------------------- C31
\* The step takes a message out of the channel of c.
TakenFrom(c) == send'[c] # send[c] /\ Len(send'[c]) < Len(send[c])

\* The step puts the close frame on the transport of c.
CloseFrameStep(c) ==
  /\ Len(wire'[c]) = Len(wire[c]) + 1
  /\ wire'[c][Len(wire'[c])] = CloseFrame

====
